---- MODULE Spec2Model ----
(***************************************************************************)
(* Pagination engine of AutoGrafoni: to_svg_no_display in grafoni_utils.py *)
(* One iteration of the token loop is one step of the state machine.       *)
(* Coordinates, the shear slope, the vertical scale and the budgets are    *)
(* integers; the code is polymorphic in its numbers.                       *)
(***************************************************************************)
EXTENDS Integers, Sequences, FiniteSets, TLC

VARIABLES chars, idx, pc,
          wrap, page_height, remaining_arg, shear_val, line_space, v_scale, em,
          out, last_char, current_page_strokes, current_y, svg_list,
          remaining_page_height, diag, ev,
          \* GrafoniConverter.convert_text
          paragraphs, max_pages, cpc, par, svgs, svg_i,
          grafoni_pages, current_page, current_page_height, page_count,
          result, raised, limit_hit, pev,
          \* PDFGenerator.generate_pdf
          pdf_groups, dpc, page_num, item_i, y_position, physical_pages, dev

pdfvars == <<pdf_groups, dpc, page_num, item_i, y_position, physical_pages, dev>>

pkvars == <<paragraphs, max_pages, cpc, par, svgs, svg_i,
            grafoni_pages, current_page, current_page_height, page_count,
            result, raised, limit_hit, pev>>

cfgvars == <<chars, wrap, page_height, remaining_arg, shear_val, line_space, v_scale, em>>
vars == <<chars, idx, pc,
          wrap, page_height, remaining_arg, shear_val, line_space, v_scale, em,
          out, last_char, current_page_strokes, current_y, svg_list,
          remaining_page_height, diag, ev, pkvars, pdfvars>>

\* ------------------------------------------------------------------ bounds
MaxLen == 4

MaxParagraphs == 3
MaxSvgs == 2
MaxPagesBound == 3

MaxGroups == 2
MaxItems == 2

\* ---------------------- constants of PDFGenerator, in hundredths of a point
A4Height == 84189
PdfMargin == 5000
TitleOffset == 10000
between_paragraph_space == 200
\* svg_height = svg.height / 2.5
PerPixel == 40

\* ------------------------------------------- constants of GrafoniConverter
ConvPageHeight == 1800
ConvWrapWidth == 260
paragraph_spacing == 2

\* ------------------------------------------------ constants of the scenario
ScenarioWrap == 100
ScenarioPageHeight == 200
DefaultLineSpace == 20

\* ------------------------------------------------------------ input domains
Tokens == {"a", "th", " ", "#"}
WrapSet == {1, 4}
AnyWrapSet == WrapSet \cup {-1, 0}
PageHeightSet == {2, 3}
RemainingSet == {<<>>, <<1>>, <<4>>}
ShearSet == {-1, 1}
VScaleSet == {1, 2}
LineSpaceSet == {2}
InputSeqs == UNION {[1..n -> Tokens] : n \in 0..MaxLen}

\* --------------------------------------------------------- stroke commands
Move(x, y) == [op |-> "move", x |-> x, y |-> y]
Draw(x, y) == [op |-> "line", x |-> x, y |-> y]

\* ------------------------------------------------- the glyph shaper (opaque)
letter_forms == {"a", " "}
ligatures == {"th"}

Width(l) == IF l = " " THEN em ELSE IF l = "a" THEN 2 * em ELSE 3 * em
Rise(l) == IF l = "th" THEN em ELSE 0
\* kerning[(last(p), first(l))] : l_kern + r_kern
kerning(p, l) == IF p = " " \/ l = " " THEN 0 ELSE em
\* nudge_kern[(last(p), first(l))]
nudge_kern(p, l) == IF p = "th" /\ l = "a" THEN 0 - em ELSE 0

Pen(o) == o[Len(o)]

\* concat(v_nudge(r_extend(out, l_kern), n_val), l_extend(form, r_kern))
concat(o, p, l) ==
    LET nx == Pen(o).x + kerning(p, l) + Width(l)
        ny == Pen(o).y + nudge_kern(p, l) + Rise(l)
    IN  Append(o, IF l = " " THEN Move(nx, ny) ELSE Draw(nx, ny))

\* shear(scale(strokes, 1, v_scale), by=shear_val)
Project(c) == [op |-> c.op, x |-> c.x + shear_val * (v_scale * c.y), y |-> v_scale * c.y]

\* ------------------------------------------------------ the engine, by line
InitOut == <<Move(0, 0)>>
InitPageStrokesSeeded == <<Move(0, 0)>>
InitPageStrokes == <<>>

InitRemaining == IF remaining_arg = <<>> THEN page_height ELSE remaining_arg[1]

Projected(o) == Pen(o).x + shear_val * v_scale * Pen(o).y

WrapDueAnyToken(o, lc) == Projected(o) > wrap
WrapDue(o, lc) == lc = " " /\ Projected(o) > wrap

LineBreakMoveUncompensated(o) == Move(0, Pen(o).y + line_space)
LineBreakMove(o) ==
    Move((0 - shear_val) * v_scale * (Pen(o).y + line_space), Pen(o).y + line_space)

PageDueInclusive(cy, rem) == cy >= rem
PageDue(cy, rem) == cy > rem

Finalize(strokes) == [strokes |-> [i \in 1..Len(strokes) |-> Project(strokes[i])]]

CarriedStrokes(o) == <<o[Len(o)]>>

KeepCallerBudget(s) == s.remaining_page_height
NextPageBudget(s) == page_height

FinalDue(cps) == cps # <<>>

S == [out |-> out, last_char |-> last_char,
      current_page_strokes |-> current_page_strokes, current_y |-> current_y,
      svg_list |-> svg_list, remaining_page_height |-> remaining_page_height,
      diag |-> diag]

S0 == [out |-> InitOut, last_char |-> " ",
       current_page_strokes |-> InitPageStrokes, current_y |-> 0,
       svg_list |-> <<>>, remaining_page_height |-> InitRemaining,
       diag |-> 0]

Resolved(l) == l \in letter_forms \/ l \in ligatures

ShapeToken(s, l) ==
    IF l \in letter_forms
    THEN [s EXCEPT !.out = concat(s.out, s.last_char, l), !.last_char = l]
    ELSE IF l \in ligatures
    THEN [s EXCEPT !.out = concat(s.out, s.last_char, l), !.last_char = l]
    ELSE [s EXCEPT !.diag = @ + 1]

PageBreak(s, o2) ==
    [s EXCEPT !.svg_list = Append(@, Finalize(s.current_page_strokes)),
              !.current_page_strokes = CarriedStrokes(o2),
              !.current_y = line_space,
              !.remaining_page_height = NextPageBudget(s),
              !.out = <<Move(0, 0)>>,
              !.last_char = " "]

WrapAndPage(s) ==
    IF WrapDue(s.out, s.last_char)
    THEN LET new_y == Pen(s.out).y + line_space
             o2 == Append(s.out, LineBreakMove(s.out))
         IN  IF PageDue(new_y, s.remaining_page_height)
             THEN PageBreak(s, o2)
             ELSE [s EXCEPT !.out = o2, !.current_y = new_y,
                            !.current_page_strokes = o2]
    ELSE [s EXCEPT !.current_page_strokes = s.out]

LoopBodyStaleCopy(s, l) ==
    LET t == WrapAndPage(ShapeToken(s, l))
    IN  IF Len(t.svg_list) = Len(s.svg_list) /\ Len(t.out) > Len(ShapeToken(s, l).out)
        THEN [t EXCEPT !.current_page_strokes = ShapeToken(s, l).out]
        ELSE t
LoopBody(s, l) == WrapAndPage(ShapeToken(s, l))

EndOfInput(s) ==
    IF FinalDue(s.current_page_strokes)
    THEN [s EXCEPT !.svg_list = Append(@, Finalize(s.current_page_strokes))]
    ELSE s

RECURSIVE RunFrom(_, _, _)
RunFrom(s, cs, i) ==
    IF i > Len(cs) THEN EndOfInput(s) ELSE RunFrom(LoopBody(s, cs[i]), cs, i + 1)

to_svg_no_display(cs) == RunFrom(S0, cs, 1).svg_list

\* ------------------------------------------------- trace of the last step
NoEvent == [kind |-> "init", tok |-> "", wrapped |-> FALSE, flushed |-> FALSE,
            buf |-> <<>>, pen |-> Move(0, 0), cy |-> 0, budget |-> 0, pages |-> 0,
            before |-> <<>>, lc |-> " ", y0 |-> 0]

TokenEvent(l) ==
    LET s1 == ShapeToken(S, l)
        w == WrapDue(s1.out, s1.last_char)
        o2 == IF w THEN Append(s1.out, LineBreakMove(s1.out)) ELSE s1.out
        cy == IF w THEN Pen(s1.out).y + line_space ELSE current_y
    IN  [kind |-> "token", tok |-> l, wrapped |-> w,
         flushed |-> w /\ PageDue(cy, remaining_page_height),
         buf |-> o2, pen |-> Pen(s1.out), cy |-> cy,
         budget |-> remaining_page_height, pages |-> Len(svg_list),
         before |-> out, lc |-> last_char, y0 |-> current_y]

\* ------------------------------------------------ generate_pdf: data
NoDrawing == [kind |-> "none", h |-> 0, ybefore |-> 0, newpage |-> FALSE,
              bottom |-> 0, pages |-> 0]

\* the PDF generator is not running
PdfIdle ==
    /\ pdf_groups = <<>> /\ dpc = "idle" /\ page_num = 0 /\ item_i = 1
    /\ y_position = 0 /\ physical_pages = 0 /\ dev = NoDrawing

\* ------------------------------------------- convert_text: data and tests
NoPlacement == [kind |-> "none", item |-> <<>>, bpage |-> <<>>, bheight |-> 0,
                bgroups |-> <<>>, remaining |-> 0]

\* the converter is not running
PackerIdle ==
    /\ paragraphs = <<>> /\ max_pages = 0 /\ cpc = "idle" /\ par = 1
    /\ svgs = <<>> /\ svg_i = 1 /\ grafoni_pages = <<>> /\ current_page = <<>>
    /\ current_page_height = 0 /\ page_count = 0 /\ result = <<>>
    /\ raised = FALSE /\ limit_hit = <<>> /\ pev = NoPlacement

\* ----------------------------------------------------------------- actions
Assign(s) ==
    /\ out' = s.out
    /\ last_char' = s.last_char
    /\ current_page_strokes' = s.current_page_strokes
    /\ current_y' = s.current_y
    /\ svg_list' = s.svg_list
    /\ remaining_page_height' = s.remaining_page_height
    /\ diag' = s.diag

Iterate ==
    /\ Assign(LoopBody(S, chars[idx]))
    /\ ev' = TokenEvent(chars[idx])
    /\ idx' = idx + 1
    /\ UNCHANGED <<pc, cfgvars, pkvars, pdfvars>>

Letter ==
    /\ pc = "loop" /\ idx <= Len(chars)
    /\ chars[idx] \in letter_forms
    /\ Iterate

Ligature ==
    /\ pc = "loop" /\ idx <= Len(chars)
    /\ chars[idx] \notin letter_forms /\ chars[idx] \in ligatures
    /\ Iterate

Unsupported ==
    /\ pc = "loop" /\ idx <= Len(chars)
    /\ ~Resolved(chars[idx])
    /\ Iterate

Return ==
    /\ pc = "loop" /\ idx > Len(chars)
    /\ Assign(EndOfInput(S))
    /\ ev' = [NoEvent EXCEPT !.kind = "return",
                             !.flushed = FinalDue(current_page_strokes),
                             !.buf = current_page_strokes,
                             !.pages = Len(svg_list), !.before = out,
                             !.lc = last_char, !.y0 = current_y, !.cy = current_y]
    /\ pc' = "done"
    /\ UNCHANGED <<idx, cfgvars, pkvars, pdfvars>>

Next == Letter \/ Ligature \/ Unsupported \/ Return

Start ==
    /\ idx = 1 /\ pc = "loop"
    /\ out = S0.out /\ last_char = S0.last_char
    /\ current_page_strokes = S0.current_page_strokes
    /\ current_y = S0.current_y /\ svg_list = S0.svg_list
    /\ remaining_page_height = S0.remaining_page_height
    /\ diag = S0.diag
    /\ ev = NoEvent
    /\ PackerIdle
    /\ PdfIdle

Configured(ws) ==
    /\ chars \in InputSeqs
    /\ wrap \in ws
    /\ page_height \in PageHeightSet
    /\ remaining_arg \in RemainingSet
    /\ shear_val \in ShearSet
    /\ line_space \in LineSpaceSet
    /\ v_scale \in VScaleSet
    /\ em = 1
    /\ Start

\* calls with a positive wrap width
Init == Configured(WrapSet)

Spec == Init /\ [][Next]_vars

\* calls with any wrap width; the code checks none of its arguments
InitAnyWrap == Configured(AnyWrapSet)

SpecAnyWrap == InitAnyWrap /\ [][Next]_vars
\* ------------------------------------- the scenario of test_conversion
\* wrap=100, page_height=200, default line_space; every word is wider than
\* the wrap width, so every space forces a line break
RECURSIVE Repeat(_, _)
Repeat(w, n) == IF n = 0 THEN <<>> ELSE w \o Repeat(w, n - 1)

ScenarioWords == {<<"a">>, <<"a", "a">>, <<"#", "a">>}
ScenarioTails == {<<"a">>, <<"th">>, <<"a", "#", "th">>}

InitScenario ==
    /\ \E w \in ScenarioWords, t \in ScenarioTails :
          chars = Repeat(w \o <<" ">>, 11) \o t
    /\ wrap = ScenarioWrap
    /\ page_height = ScenarioPageHeight
    /\ remaining_arg = <<>>
    /\ shear_val \in ShearSet
    /\ line_space = DefaultLineSpace
    /\ v_scale \in VScaleSet
    /\ em = 60
    /\ Start

SpecScenario == InitScenario /\ [][Next]_vars

\* ===================================================================
\* GrafoniConverter.convert_text
\* ===================================================================
\* what the engine does for one paragraph: raise, or return pages of these
\* rendered heights
SvgHeightSet == {898, 1900}
Outcomes ==
    {[err |-> TRUE, pages |-> <<>>]} \cup
    {[err |-> FALSE, pages |-> hs] : hs \in UNION {[1..n -> SvgHeightSet] : n \in 0..MaxSvgs}}
ParagraphSeqs == UNION {[1..n -> Outcomes] : n \in 0..MaxParagraphs}

\* {'text': paragraph[:50]..., 'svg': svg}
Item(p, i, h) == [par |-> p, svg |-> i, height |-> h]

FitsStrict(used, h) == used + h + paragraph_spacing < page_height
Fits(used, h) == used + h + paragraph_spacing <= page_height

FinalAppendUnguarded(cp, n) == n < max_pages
FinalAppendAlways(cp, n) == cp # <<>>
FinalAppendDue(cp, n) == cp # <<>> /\ n < max_pages

engvars == <<chars, idx, pc, wrap, page_height, remaining_arg, shear_val,
             line_space, v_scale, em, out, last_char, current_page_strokes,
             current_y, svg_list, remaining_page_height, diag, ev>>

\* the engine as the converter configures it; it is not stepped here
EngineIdle ==
    /\ chars = <<>> /\ idx = 1 /\ pc = "idle"
    /\ wrap = ConvWrapWidth /\ page_height = ConvPageHeight
    /\ remaining_arg = <<>> /\ shear_val = -1 /\ line_space = DefaultLineSpace
    /\ v_scale = 1 /\ em = 1
    /\ out = InitOut /\ last_char = " " /\ current_page_strokes = InitPageStrokes
    /\ current_y = 0 /\ svg_list = <<>> /\ remaining_page_height = ConvPageHeight
    /\ diag = 0 /\ ev = NoEvent

FirstItem == Item(par, 1, svgs[1])
CurrentItem == Item(par, svg_i, svgs[svg_i])

Before(kind) ==
    [kind |-> kind, item |-> <<>>, bpage |-> current_page,
     bheight |-> current_page_height, bgroups |-> grafoni_pages,
     remaining |-> page_height - current_page_height]

\* lines 194-207: the engine returns the pages of the next paragraph
ConvertParagraph ==
    /\ cpc = "para" /\ par <= Len(paragraphs) /\ page_count < max_pages
    /\ ~paragraphs[par].err
    /\ svgs' = paragraphs[par].pages /\ svg_i' = 1 /\ cpc' = "svgs"
    /\ pev' = Before("call")
    /\ UNCHANGED <<paragraphs, max_pages, par, grafoni_pages, current_page,
                   current_page_height, page_count, result, raised, limit_hit>>
    /\ UNCHANGED <<engvars, pdfvars>>

\* lines 202, 236-238: the engine raises; convert_text returns []
EngineRaises ==
    /\ cpc = "para" /\ par <= Len(paragraphs) /\ page_count < max_pages
    /\ paragraphs[par].err
    /\ result' = <<>> /\ raised' = TRUE /\ cpc' = "done"
    /\ pev' = Before("raise")
    /\ UNCHANGED <<paragraphs, max_pages, par, svgs, svg_i, grafoni_pages,
                   current_page, current_page_height, page_count, limit_hit>>
    /\ UNCHANGED <<engvars, pdfvars>>

\* lines 195-196
LimitBeforeParagraph ==
    /\ cpc = "para" /\ par <= Len(paragraphs) /\ page_count >= max_pages
    /\ cpc' = "final"
    /\ pev' = Before("limit")
    /\ UNCHANGED <<paragraphs, max_pages, par, svgs, svg_i, grafoni_pages,
                   current_page, current_page_height, page_count, result,
                   raised, limit_hit>>
    /\ UNCHANGED <<engvars, pdfvars>>

\* line 194: no paragraph is left
ParagraphsDone ==
    /\ cpc = "para" /\ par > Len(paragraphs)
    /\ cpc' = "final"
    /\ pev' = Before("end")
    /\ UNCHANGED <<paragraphs, max_pages, par, svgs, svg_i, grafoni_pages,
                   current_page, current_page_height, page_count, result,
                   raised, limit_hit>>
    /\ UNCHANGED <<engvars, pdfvars>>

\* lines 213-219
PlaceOnCurrent ==
    /\ cpc = "svgs" /\ svg_i <= Len(svgs)
    /\ Fits(current_page_height, svgs[svg_i])
    /\ current_page' = Append(current_page, CurrentItem)
    /\ current_page_height' = current_page_height + svgs[svg_i] + paragraph_spacing
    /\ svg_i' = svg_i + 1
    /\ pev' = [Before("fit") EXCEPT !.item = CurrentItem]
    /\ UNCHANGED <<paragraphs, max_pages, cpc, par, svgs, grafoni_pages,
                   page_count, result, raised, limit_hit>>
    /\ UNCHANGED <<engvars, pdfvars>>

\* lines 220-234
StartNewGroup ==
    /\ cpc = "svgs" /\ svg_i <= Len(svgs)
    /\ ~Fits(current_page_height, svgs[svg_i])
    /\ LET sealed == current_page # <<>>
           n == IF sealed THEN page_count + 1 ELSE page_count
           stop == sealed /\ n >= max_pages
       IN  /\ grafoni_pages' = IF sealed THEN Append(grafoni_pages, current_page)
                                         ELSE grafoni_pages
           /\ page_count' = n
           /\ IF stop
              THEN /\ cpc' = "para" /\ par' = par + 1
                   /\ limit_hit' = <<grafoni_pages'>>
                   /\ pev' = [Before("stop") EXCEPT !.item = CurrentItem]
                   /\ UNCHANGED <<current_page, current_page_height, svg_i>>
              ELSE /\ current_page' = <<CurrentItem>>
                   /\ current_page_height' = svgs[svg_i] + paragraph_spacing
                   /\ svg_i' = svg_i + 1
                   /\ pev' = [Before("new") EXCEPT !.item = CurrentItem]
                   /\ UNCHANGED <<cpc, par, limit_hit>>
    /\ UNCHANGED <<paragraphs, max_pages, svgs, result, raised>>
    /\ UNCHANGED <<engvars, pdfvars>>

\* line 210: the pages of this paragraph are placed
SvgsDone ==
    /\ cpc = "svgs" /\ svg_i > Len(svgs)
    /\ cpc' = "para" /\ par' = par + 1
    /\ pev' = Before("next")
    /\ UNCHANGED <<paragraphs, max_pages, svgs, svg_i, grafoni_pages,
                   current_page, current_page_height, page_count, result,
                   raised, limit_hit>>
    /\ UNCHANGED <<engvars, pdfvars>>

\* lines 240-244
ReturnPages ==
    /\ cpc = "final"
    /\ grafoni_pages' = IF FinalAppendDue(current_page, page_count)
                        THEN Append(grafoni_pages, current_page)
                        ELSE grafoni_pages
    /\ result' = grafoni_pages'
    /\ cpc' = "done"
    /\ pev' = Before("return")
    /\ UNCHANGED <<paragraphs, max_pages, par, svgs, svg_i, current_page,
                   current_page_height, page_count, raised, limit_hit>>
    /\ UNCHANGED <<engvars, pdfvars>>

NextPacker ==
    \/ ConvertParagraph \/ EngineRaises \/ LimitBeforeParagraph
    \/ ParagraphsDone \/ PlaceOnCurrent \/ StartNewGroup \/ SvgsDone
    \/ ReturnPages

InitPacker ==
    /\ paragraphs \in ParagraphSeqs
    /\ max_pages \in 0..MaxPagesBound
    /\ cpc = "para" /\ par = 1 /\ svgs = <<>> /\ svg_i = 1
    /\ grafoni_pages = <<>> /\ current_page = <<>> /\ current_page_height = 0
    /\ page_count = 0 /\ result = <<>> /\ raised = FALSE /\ limit_hit = <<>>
    /\ pev = NoPlacement
    /\ EngineIdle
    /\ PdfIdle

SpecPacker == InitPacker /\ [][NextPacker]_vars

\* ===================================================================
\* PDFGenerator.generate_pdf
\* ===================================================================
\* rendered heights of the images, in pixels
PdfHeightSet == {900, 1854}
GroupSeqs == UNION {[1..n -> PdfHeightSet] : n \in 0..MaxItems}
PdfInputs == UNION {[1..n -> GroupSeqs] : n \in 0..MaxGroups}

ImageHeight(h) == PerPixel * h

NewPageDueNoMargin(y, sh) == y - sh < 0
NewPageDue(y, sh) == y - sh < PdfMargin

TopOfPage == A4Height - PdfMargin

\* the cursor after the page check of lines 322-324
CursorFor(y, sh) == IF NewPageDue(y, sh) THEN TopOfPage ELSE y

\* lines 296-311: next Page Group, the cursor starts below the header
BeginGroup ==
    /\ dpc = "group" /\ page_num < Len(pdf_groups)
    /\ y_position' = IF page_num = 0 THEN A4Height - TitleOffset ELSE TopOfPage
    /\ item_i' = 1 /\ dpc' = "items"
    /\ dev' = [NoDrawing EXCEPT !.kind = "begin", !.pages = physical_pages]
    /\ UNCHANGED <<pdf_groups, page_num, physical_pages>>
    /\ UNCHANGED <<engvars, pkvars>>

CurrentImage == ImageHeight(pdf_groups[page_num + 1][item_i])

\* lines 313-337: the image is placed
DrawItem ==
    /\ dpc = "items" /\ item_i <= Len(pdf_groups[page_num + 1])
    /\ LET sh == CurrentImage
           y == CursorFor(y_position, sh)
       IN  /\ physical_pages' = IF NewPageDue(y_position, sh)
                                THEN physical_pages + 1 ELSE physical_pages
           /\ y_position' = y - (sh + between_paragraph_space)
           /\ dev' = [kind |-> "draw", h |-> sh, ybefore |-> y_position,
                      newpage |-> NewPageDue(y_position, sh),
                      bottom |-> y - sh, pages |-> physical_pages]
    /\ item_i' = item_i + 1
    /\ UNCHANGED <<pdf_groups, dpc, page_num>>
    /\ UNCHANGED <<engvars, pkvars>>

\* lines 315, 339-341: as_svg() raises, the item is skipped
ItemUnreadable ==
    /\ dpc = "items" /\ item_i <= Len(pdf_groups[page_num + 1])
    /\ item_i' = item_i + 1
    /\ dev' = [NoDrawing EXCEPT !.kind = "unreadable", !.h = CurrentImage,
                                !.ybefore = y_position, !.pages = physical_pages]
    /\ UNCHANGED <<pdf_groups, dpc, page_num, y_position, physical_pages>>
    /\ UNCHANGED <<engvars, pkvars>>

\* lines 322-334, 339-341: _embed_png raises after the page check
EmbedFails ==
    /\ dpc = "items" /\ item_i <= Len(pdf_groups[page_num + 1])
    /\ LET sh == CurrentImage
       IN  /\ physical_pages' = IF NewPageDue(y_position, sh)
                                THEN physical_pages + 1 ELSE physical_pages
           /\ y_position' = CursorFor(y_position, sh)
           /\ dev' = [NoDrawing EXCEPT !.kind = "embedfail", !.h = sh,
                                       !.ybefore = y_position,
                                       !.newpage = NewPageDue(y_position, sh),
                                       !.pages = physical_pages]
    /\ item_i' = item_i + 1
    /\ UNCHANGED <<pdf_groups, dpc, page_num>>
    /\ UNCHANGED <<engvars, pkvars>>

\* line 343: showPage at the end of the Page Group
EndGroup ==
    /\ dpc = "items" /\ item_i > Len(pdf_groups[page_num + 1])
    /\ physical_pages' = physical_pages + 1
    /\ page_num' = page_num + 1
    /\ dpc' = "group"
    /\ dev' = [NoDrawing EXCEPT !.kind = "end", !.pages = physical_pages]
    /\ UNCHANGED <<pdf_groups, item_i, y_position>>
    /\ UNCHANGED <<engvars, pkvars>>

\* lines 345-349
SavePdf ==
    /\ dpc = "group" /\ page_num >= Len(pdf_groups)
    /\ dpc' = "done"
    /\ dev' = [NoDrawing EXCEPT !.kind = "save", !.pages = physical_pages]
    /\ UNCHANGED <<pdf_groups, page_num, item_i, y_position, physical_pages>>
    /\ UNCHANGED <<engvars, pkvars>>

NextPdf ==
    \/ BeginGroup \/ DrawItem \/ ItemUnreadable \/ EmbedFails \/ EndGroup
    \/ SavePdf

InitPdf ==
    /\ pdf_groups \in PdfInputs
    /\ dpc = "group" /\ page_num = 0 /\ item_i = 1
    /\ y_position = 0 /\ physical_pages = 0 /\ dev = NoDrawing
    /\ EngineIdle
    /\ PackerIdle

SpecPdf == InitPdf /\ [][NextPdf]_vars

\* ===================================================================
\* Properties
\* ===================================================================
RemoveAt(cs, j) == [i \in 1..(Len(cs) - 1) |-> IF i < j THEN cs[i] ELSE cs[i + 1]]

\* budget in force for the internal page that follows n sealed pages
EffBudget(n) ==
    IF n = 0 THEN (IF remaining_arg = <<>> THEN page_height ELSE remaining_arg[1])
    ELSE page_height

\* a page was sealed by the token step that led to this state
SealedByBreak == ev.kind = "token" /\ Len(svg_list) = ev.pages + 1

\* C1: a line-break Move is appended only after a token that resolved to a
\* space, and then exactly when pen_x + shear_value * vertical_scale * pen_y
\* exceeds wrap_width (pen read after the token's fragment was appended); no
\* letter, ligature or unresolved token triggers a line break.
C1_BreakOnlyAfterSpace ==
    ev.kind = "token" =>
        /\ ev.wrapped => ev.tok = " "
        /\ ev.tok = " " =>
              (ev.wrapped <=> ev.pen.x + shear_val * v_scale * ev.pen.y > wrap)

\* C2: every line-break Move has y = pen_y + line_spacing and
\* x = -shear_value * vertical_scale * y for its own y, so the projected x of
\* every line origin is 0, however many line breaks preceded it on the page.
LastBreakMove == IF SealedByBreak THEN current_page_strokes[1] ELSE Pen(out)

C2_NoDrift ==
    (ev.kind = "token" /\ ev.wrapped) =>
        /\ LastBreakMove.op = "move"
        /\ LastBreakMove.y = ev.pen.y + line_space
        /\ LastBreakMove.x = 0 - shear_val * v_scale * LastBreakMove.y
        /\ LastBreakMove.x + shear_val * v_scale * LastBreakMove.y = 0

\* two line breaks on the same internal page, the second at a lower line
C2_Witness ==
    /\ ev.kind = "token" /\ ev.wrapped /\ ~SealedByBreak /\ wrap > 0
    /\ \E i \in 2..(Len(out) - 1) :
          /\ out[i].op = "move" /\ out[i].y >= line_space
          /\ out[i].x = 0 - shear_val * v_scale * out[i].y
          /\ Pen(out).y >= out[i].y + line_space

\* C3: a page is sealed right after a line break exactly when the cumulative
\* vertical offset exceeds the effective budget: the caller's
\* remaining_page_height (page_height when absent) for the first internal
\* page, the full page_height for every later one.
C3_PartialBudget ==
    ev.kind = "token" =>
        /\ Len(svg_list) \in {ev.pages, ev.pages + 1}
        /\ SealedByBreak <=> (ev.wrapped /\ ev.cy > EffBudget(ev.pages))

\* a second internal page is sealed in a call that inherited a partial budget
C3_Witness ==
    /\ SealedByBreak /\ ev.pages >= 1 /\ wrap > 0
    /\ remaining_arg # <<>> /\ remaining_arg[1] < page_height

\* a line break on a later page that the partial budget would have sealed
C3_WitnessKept ==
    /\ ev.kind = "token" /\ ev.wrapped /\ ~SealedByBreak /\ ev.pages >= 1
    /\ remaining_arg # <<>> /\ ev.cy > remaining_arg[1]

\* C4: the page finalized on a page break is the whole stroke buffer of that
\* moment except the trailing line-break Move (the fragment of the space that
\* triggered the break included).
C4_WholeBufferFlushed ==
    SealedByBreak =>
        svg_list[Len(svg_list)] = Finalize(SubSeq(ev.buf, 1, Len(ev.buf) - 1))

\* C5: after a page break the carried line-break Move stays the first
\* command of the new page's buffer while further tokens are processed.
C5_SeedStaysFirst ==
    [][(/\ pc = "loop" /\ pc' = "loop"
        /\ Len(svg_list) >= 1 /\ Len(svg_list') = Len(svg_list))
       => current_page_strokes'[1] = current_page_strokes[1]]_vars

\* C6 (as stated): at the flush of a page sealed by a page break the
\* cumulative vertical offset does not exceed the effective budget.
C6_BudgetRespected == SealedByBreak => ev.cy <= EffBudget(ev.pages)

\* C6 (amended): at the flush of a page sealed by a page break the cumulative
\* vertical offset is strictly above the effective budget of that page; the
\* excess is what triggers the flush.
C6_FlushAboveBudget == SealedByBreak => ev.cy > EffBudget(ev.pages)

C6_Witness == SealedByBreak /\ wrap > 0 /\ ev.pages = 0 /\ remaining_arg = <<>>

\* C7: at end of input a final page is produced if and only if the buffer
\* holds more than the bare seed Move.
C7_FinalPageIffContent ==
    ev.kind = "return" => (Len(svg_list) = ev.pages + 1 <=> Len(ev.buf) > 1)

\* C8: an empty token sequence returns zero Finished Pages.
C8_EmptyInput ==
    (chars = <<>> /\ pc = "done") => (svg_list = <<>> /\ diag = 0)

C8_Witness == chars = <<>> /\ pc = "done" /\ ev.kind = "return"

\* C9: an unresolved token leaves the buffer and last_char unchanged, emits
\* one diagnostic, and the final output equals the output for the same input
\* with that token removed.
C9_UnresolvedIsDropped ==
    /\ (ev.kind = "token" /\ ~Resolved(ev.tok)) =>
          (out = ev.before /\ last_char = ev.lc)
    /\ pc = "done" =>
          \A j \in 1..Len(chars) :
              ~Resolved(chars[j]) => svg_list = to_svg_no_display(RemoveAt(chars, j))
\* ---- C10
RECURSIVE NumSpaces(_, _)
NumSpaces(cs, n) == IF n = 0 THEN 0 ELSE NumSpaces(cs, n - 1) + (IF cs[n] = " " THEN 1 ELSE 0)

\* lines of a finished page that carry drawn strokes
LinesOf(page) ==
    Cardinality({page.strokes[i].y : i \in {k \in 1..Len(page.strokes) : page.strokes[k].op = "line"}})

\* line-break Moves of a finished page (projected line origins below the first line)
BreakMovesOf(page) ==
    Cardinality({i \in 1..Len(page.strokes) :
                    /\ page.strokes[i].op = "move"
                    /\ page.strokes[i].x = 0 /\ page.strokes[i].y > 0})

\* the input after the k-th space
RECURSIVE AfterSpace(_, _)
AfterSpace(cs, k) ==
    IF k = 0 \/ cs = <<>> THEN cs
    ELSE AfterSpace(Tail(cs), IF Head(cs) = " " THEN k - 1 ELSE k)

ScenarioShape(lines) ==
    /\ SealedByBreak => (NumSpaces(chars, idx - 1) = 11 /\ ev.cy = 220 /\ ev.pages = 0)
    /\ pc = "done" =>
          /\ Len(svg_list) = 2
          /\ LinesOf(svg_list[1]) = lines
          /\ svg_list[2] = to_svg_no_display(AfterSpace(chars, 11))[1]

\* C10 (as stated): exactly 2 internal pages, the first flushed at the 11th
\* line break (cumulative height 220 > 200) and holding 10 lines of content,
\* the second holding the remainder.
C10_TenLinesFirstPage == ScenarioShape(10)

\* C10 (amended): exactly 2 internal pages, the first flushed at the 11th
\* line break and holding the 11 lines written before that break, joined by
\* the first 10 line-break Moves; the second holding the remainder.
C10_ElevenLinesFirstPage ==
    /\ ScenarioShape(11)
    /\ pc = "done" => BreakMovesOf(svg_list[1]) = 10

C10_Witness ==
    /\ pc = "done" /\ Len(svg_list) = 2 /\ wrap = ScenarioWrap
    /\ page_height = ScenarioPageHeight /\ NumSpaces(chars, Len(chars)) = 11
\* ---- C11
\* C11: right after every page break the cumulative vertical offset is one
\* line_spacing, the remaining page height is the full page_height and
\* last_char is the word-boundary token.
C11_ResetAfterFlush ==
    SealedByBreak =>
        /\ current_y = line_space
        /\ remaining_page_height = page_height
        /\ last_char = " "

\* a flush that changes all three: partial budget, pen below the first line
C11_Witness ==
    /\ SealedByBreak /\ ev.cy > line_space /\ ev.tok = " "
    /\ remaining_arg # <<>> /\ ev.budget # page_height

\* ---- C12
\* C12: every line break raises the cumulative vertical offset since the last
\* page flush by exactly line_spacing, whatever the pen's vertical position,
\* and leaves last_char equal to the word-boundary token.
C12_OffsetGrowsByLineSpace ==
    (ev.kind = "token" /\ ev.wrapped) =>
        /\ ~SealedByBreak => current_y = ev.y0 + line_space
        /\ last_char = " "

\* ---- C17
\* C17: a call with a non-positive page_height or wrap width fails before any
\* token is processed and never returns pages.
C17_ConfigRejected ==
    (wrap <= 0 \/ page_height <= 0) => (idx = 1 /\ pc = "loop" /\ svg_list = <<>>)

\* ---- C20
RECURSIVE NumResolved(_, _)
NumResolved(cs, n) ==
    IF n = 0 THEN 0 ELSE NumResolved(cs, n - 1) + (IF Resolved(cs[n]) THEN 1 ELSE 0)

RECURSIVE GroupHeight(_)
GroupHeight(g) ==
    IF g = <<>> THEN 0 ELSE Head(g).height + paragraph_spacing + GroupHeight(Tail(g))

IsPrefix(a, b) == Len(a) <= Len(b) /\ \A i \in 1..Len(a) : a[i] = b[i]

Placed == pev.kind \in {"fit", "new", "stop"}

\* C13: when the engine raises for one paragraph, every group sealed before
\* the error is still in the returned list and the paragraphs after the
\* failing one are still converted.
C13_FailureIsolation ==
    (cpc = "done" /\ raised) =>
        /\ IsPrefix(grafoni_pages, result)
        /\ par >= Len(paragraphs)

\* C14: no group of the result exceeds the physical page budget: the sum of
\* (height + paragraph_spacing) over its pages is at most page_height.
C14_GroupsWithinBudget ==
    /\ \A i \in 1..Len(grafoni_pages) : GroupHeight(grafoni_pages[i]) <= page_height
    /\ \A i \in 1..Len(result) : GroupHeight(result[i]) <= page_height

\* the placement of one Finished Page; onLimit tells what a page that does
\* not fit does when sealing the group reaches max_pages
PlacementRule(onLimit) ==
    /\ Placed =>
          LET h == pev.item.height
              fits == pev.bheight + h + paragraph_spacing <= page_height
              sealedNow == IF pev.bpage # <<>> THEN Append(pev.bgroups, pev.bpage)
                           ELSE pev.bgroups
          IN  /\ fits =>
                    /\ current_page = Append(pev.bpage, pev.item)
                    /\ current_page_height = pev.bheight + h + paragraph_spacing
                    /\ grafoni_pages = pev.bgroups
              /\ ~fits =>
                    /\ grafoni_pages = sealedNow
                    /\ IF onLimit /\ pev.bpage # <<>> /\ Len(sealedNow) >= max_pages
                       THEN /\ current_page = pev.bpage
                            /\ current_page_height = pev.bheight
                            /\ cpc = "para"
                       ELSE /\ current_page = <<pev.item>>
                            /\ current_page_height = h + paragraph_spacing
    /\ (~Placed /\ pev.kind # "return") => grafoni_pages = pev.bgroups

\* C15 (as stated): a page is appended to the current group exactly when
\* group_height_used + height + spacing <= page_height; otherwise the group
\* is sealed if non-empty and a new group starts with this page alone; no
\* group is sealed otherwise before the end of input.
C15_PlacementRule == PlacementRule(FALSE)

\* C15 (amended): as stated, except that when sealing the group brings the
\* number of sealed groups to max_pages, no new group is started: the page is
\* dropped and placing stops.
C15_PlacementRuleUpToLimit == PlacementRule(TRUE)

C15_Witness ==
    /\ pev.kind = "stop" /\ Len(pev.bpage) >= 2 /\ max_pages >= 2
    /\ pev.bheight + pev.item.height + paragraph_spacing > page_height

\* C16: every call of the engine gets remaining_page_height = page_height
\* minus the height used on the open group, and 0 <= remaining <= page_height.
C16_RemainingInRange ==
    pev.kind = "call" =>
        /\ pev.remaining = page_height - GroupHeight(current_page)
        /\ 0 <= pev.remaining /\ pev.remaining <= page_height

\* C18: convert_text never returns more than max_pages groups; when the limit
\* is reached inside a paragraph the groups sealed so far are returned
\* unchanged, and no group is returned twice.
C18_MaxPages ==
    /\ Len(grafoni_pages) <= max_pages
    /\ cpc = "done" =>
          /\ Len(result) <= max_pages
          /\ \A i, j \in 1..Len(result) : i # j => result[i] # result[j]
          /\ limit_hit # <<>> => result = limit_hit[1]

\* the limit is reached while pages of the paragraph are still unplaced
C18_Witness ==
    /\ cpc = "done" /\ limit_hit # <<>> /\ max_pages >= 2
    /\ Len(result) = max_pages /\ svg_i <= Len(svgs)
\* ---- generate_pdf
\* C19: before an image is placed a new physical page is started, with the
\* cursor reset to page_height - 50, exactly when cursor - image_height < 50;
\* the image is drawn with its bottom at cursor - image_height and the cursor
\* drops by image_height + spacing; so every image no taller than
\* page_height - 100 has its bottom edge at or above the 50-point margin.
C19_CursorProtocol ==
    /\ dev.kind \in {"draw", "embedfail"} =>
          /\ dev.newpage <=> dev.ybefore - dev.h < 5000
          /\ physical_pages = dev.pages + (IF dev.newpage THEN 1 ELSE 0)
    /\ dev.kind = "draw" =>
          LET cursor == IF dev.ybefore - dev.h < 5000 THEN A4Height - 5000
                        ELSE dev.ybefore
          IN  /\ dev.bottom = cursor - dev.h
              /\ y_position = cursor - dev.h - between_paragraph_space
              /\ dev.h <= A4Height - 10000 => dev.bottom >= 5000

\* an image that fits only on a fresh page is drawn after a page is started
C19_Witness ==
    /\ dev.kind = "draw" /\ dev.newpage /\ dev.ybefore < A4Height - 10000
    /\ dev.h <= A4Height - 10000 /\ dev.h > A4Height - 20000
    /\ dev.bottom >= 5000
\* ---- order and completeness of the packing
RECURSIVE Flatten(_)
Flatten(gs) == IF gs = <<>> THEN <<>> ELSE Head(gs) \o Flatten(Tail(gs))

\* the pages the engine returned for paragraph p, in its order
PagesOf(p) ==
    [i \in 1..Len(paragraphs[p].pages) |-> Item(p, i, paragraphs[p].pages[i])]

RECURSIVE EnginePages(_)
EnginePages(n) == IF n = 0 THEN <<>> ELSE EnginePages(n - 1) \o PagesOf(n)

\* convert_text has returned, nothing was raised and max_pages never stopped
\* the placing or the paragraph loop
CompleteRun ==
    /\ cpc = "done" /\ ~raised /\ limit_hit = <<>>
    /\ par > Len(paragraphs)

\* C21: when no error occurs and max_pages is not reached, the returned
\* groups concatenated in order are exactly the engine's pages of paragraph
\* 1, then paragraph 2, ..., each once and in the engine's order.
C21_OrderAndCompleteness ==
    CompleteRun => Flatten(result) = EnginePages(Len(paragraphs))

\* a paragraph of two pages spans two groups and another paragraph follows
C21_Witness ==
    /\ CompleteRun /\ Len(result) >= 2 /\ Len(paragraphs) >= 2
    /\ \E g \in 1..(Len(result) - 1) :
          /\ result[g][Len(result[g])].par = result[g + 1][1].par
          /\ result[g + 1][1].svg = 2
    /\ Len(Flatten(result)) >= 3

\* C22: convert_text never returns an empty Page Group, whatever the
\* paragraphs (also those yielding no page), the page heights and max_pages.
C22_NoEmptyGroup ==
    /\ \A g \in 1..Len(grafoni_pages) : Len(grafoni_pages[g]) >= 1
    /\ \A g \in 1..Len(result) : Len(result[g]) >= 1

\* groups were returned although some paragraph yielded no page, and a
\* run whose paragraphs yield no page at all returns no group
C22_Witness ==
    /\ cpc = "done" /\ ~raised /\ max_pages >= 1
    /\ \E p \in 1..Len(paragraphs) : paragraphs[p].pages = <<>>
    /\ \/ Len(result) >= 2
       \/ (result = <<>> /\ \A p \in 1..Len(paragraphs) : paragraphs[p].pages = <<>>)
====
